---- MODULE Spec2Model ----
(***************************************************************************)
(* Row-store key search of src/src/btree/row_srch.c:                       *)
(*   __wt_row_search, __wt_ins_search, __wt_key_build and                  *)
(*   __wt_key_build_serial_func.                                           *)
(*                                                                         *)
(* Three specifications:                                                   *)
(*   Spec    one session running __wt_row_search, statement by statement,  *)
(*           over a tree whose pages are produced by __wt_page_in on       *)
(*           demand (any well-formed page for the key range of the child); *)
(*   WSpec   the same search on a tree whose root is a leaf, with other    *)
(*           sessions entering updates for the searched key meanwhile;     *)
(*   KBSpec  NThreads sessions probing one leaf slot (lines 141-144),      *)
(*           racing through __wt_key_build, with the workQ thread running  *)
(*           __wt_key_build_serial_func one request at a time.             *)
(***************************************************************************)
EXTENDS Integers, Sequences, FiniteSets, TLC

\* ------------------------------------------------------------------ bounds
MaxKey == 3
MaxSlots == 3
MaxChain == 2
MaxInt == 3
MaxDepth == 2
NThreads == 3
MaxWrites == 1

\* ------------------------------------------------------- program constants
WT_NOTFOUND == -31803
WT_ERROR == -31802
\* UINT32_MAX is the all-ones uint32_t, (uint32_t)-1; TLC integers are 32-bit
\* signed, so it is written as -1 (no slot number is negative).
UINT32_MAX == -1

Keys == 1..MaxKey
Threads == 1..NThreads

\* ------------------------------------------------ keys, cells and buffers
\* A key reference is the void *data of a WT_ROW / WT_ROW_REF: either an
\* on-page cell (overflow/compressed, to be decoded) or an off-page buffer.
\* k is the key's byte content, owner the session of KBSpec that allocated
\* the buffer (0: the owner is not tracked).
Cell(k) == [off |-> FALSE, k |-> k, owner |-> 0]
Buf(k, t) == [off |-> TRUE, k |-> k, owner |-> t]

\* Size in bytes of key k: always non-zero.
KeySize(k) == k

PendingSlot(k) == [key |-> Cell(k), size |-> 0]
ResidentSlot(k) == [key |-> Buf(k, 0), size |-> KeySize(k)]

\* __wt_key_process: the key needs processing when its size is 0.
KeyProcess(s) == s.size = 0

\* __wt_ref_off_page: the pointer does not reference the page's disk image.
RefOffPage(p) == p.off

\* __wt_cell_process: decode a cell into a buffer owned by session t.
CellProcess(cell, t) == [data |-> Buf(cell.k, t), size |-> KeySize(cell.k)]

\* btree->btree_compare: total order on key bytes.
Compare(a, b) == IF a < b THEN -1 ELSE IF a = b THEN 0 ELSE 1

\* ----------------------------------------------------------------- updates
\* A WT_UPDATE pointer: NullUpd is NULL; otherwise `at' identifies the
\* update (slot i: i; chain node holding key k: 100 + k) and del is
\* WT_UPDATE_DELETED_ISSET.
NullUpd == [at |-> -1, del |-> FALSE]
SlotUpd(i, del) == [at |-> i, del |-> del]
NodeUpd(k, del) == [at |-> 100 + k, del |-> del]
UpdIsNull(u) == u.at = -1
UpdDeleted(u) == u.del

\* ------------------------------------------------------------------- pages
\* Nth(S, i): the i-th smallest element of S, i in 0..Cardinality(S)-1.
Nth(S, i) == CHOOSE x \in S : Cardinality({y \in S : y < x}) = i

Count(f) == Cardinality(DOMAIN f)

\* Per-key description of a leaf: not stored, stored on disk (resident or
\* pending key; no update, a live update or a deleted update), or stored in
\* an insert chain (live or deleted update).
DiskKinds == {"dr_null", "dr_live", "dr_del", "dp_null", "dp_live", "dp_del"}
ChainKinds == {"c_live", "c_del"}
Kinds == {"none"} \cup DiskKinds \cup ChainKinds

DiskKeys(kind) == {k \in DOMAIN kind : kind[k] \in DiskKinds}
ChainKeys(kind) == {k \in DOMAIN kind : kind[k] \in ChainKinds}

\* The insert chain a key belongs to: the chain of the largest on-disk slot
\* whose key is smaller, or the page's extra "smallest" chain (index = slot
\* count) when there is none.
ChainOf(kind, k) ==
    LET below == {d \in DiskKeys(kind) : d < k}
    IN  IF below = {} THEN Cardinality(DiskKeys(kind))
        ELSE Cardinality(below) - 1

ChainSet(kind, c) == {k \in ChainKeys(kind) : ChainOf(kind, k) = c}

\* The update (insert) array of a leaf is allocated when the first update
\* (insert) is entered for the page: it exists exactly when some slot has an
\* update (some chain has a node).
MkLeaf(kind, level) ==
    LET dk == DiskKeys(kind)
        n == Cardinality(dk)
        d == [i \in 0..(n - 1) |->
                LET k == Nth(dk, i)
                IN  IF kind[k] \in {"dp_null", "dp_live", "dp_del"}
                    THEN PendingSlot(k) ELSE ResidentSlot(k)]
        upd == [i \in 0..(n - 1) |->
                LET k == Nth(dk, i)
                IN  IF kind[k] \in {"dr_null", "dp_null"} THEN NullUpd
                    ELSE SlotUpd(i, kind[k] \in {"dr_del", "dp_del"})]
        ins == [c \in 0..n |->
                LET ks == ChainSet(kind, c)
                IN  [p \in 0..(Cardinality(ks) - 1) |->
                        LET k == Nth(ks, p)
                        IN  [key |-> k, upd |-> NodeUpd(k, kind[k] = "c_del")]]]
        nupd == Cardinality({i \in 0..(n - 1) : ~UpdIsNull(upd[i])})
    IN  [type |-> "leaf", level |-> level,
         write_gen |-> 1 + nupd + Cardinality(ChainKeys(kind)),
         d |-> d,
         has_upd |-> nupd # 0, upd |-> upd,
         has_ins |-> ChainKeys(kind) # {}, ins |-> ins]

\* Every well-formed leaf holding keys of lo..hi-1: at most MaxSlots sorted
\* on-disk slots, sorted chains of at most MaxChain nodes lying between the
\* neighbouring on-disk keys.
LeafPages(lo, hi, level) ==
    { MkLeaf(kind, level) :
        kind \in { x \in [lo..(hi - 1) -> Kinds] :
                     /\ Cardinality(DiskKeys(x)) <= MaxSlots
                     /\ \A c \in 0..MaxSlots :
                           Cardinality(ChainSet(x, c)) <= MaxChain } }

\* Every well-formed internal page for lo..hi-1: 1..MaxInt entries; the
\* keys from index 1 up are strictly sorted and greater than the key kept
\* at index 0; any key may be pending.
MkInt(ks, pend, level) ==
    [type |-> "int", level |-> level, write_gen |-> 1,
     t |-> [i \in 0..(Cardinality(ks) - 1) |->
              LET k == Nth(ks, i)
              IN  IF k \in pend THEN PendingSlot(k) ELSE ResidentSlot(k)]]

IntPages(lo, hi, level) ==
    { MkInt(x[1], x[2], level) :
        x \in { y \in (SUBSET (lo..(hi - 1))) \X (SUBSET (lo..(hi - 1))) :
                  /\ y[1] # {}
                  /\ Cardinality(y[1]) <= MaxInt
                  /\ y[2] \subseteq y[1] } }

PagesAt(lo, hi, level) ==
    LeafPages(lo, hi, level) \cup
    (IF level < MaxDepth /\ lo < hi THEN IntPages(lo, hi, level) ELSE {})

IndxCount(p) == IF p.type = "int" THEN Count(p.t) ELSE Count(p.d)

\* ------------------------------------------------------------- the session
\* References (WT_UPDATE ** / WT_INSERT **): kind "null" is NULL;
\*   "slot": &page->u.row_leaf.upd[slot];  "node": &ins->upd of node pos of
\*   chain slot;  "head": &page->u.row_leaf.ins[slot];  "next": &ins->next of
\*   node pos of chain slot.
NullRef == [kind |-> "null", slot |-> -1, pos |-> -1]
Ref(kind, slot, pos) == [kind |-> kind, slot |-> slot, pos |-> pos]

\* The values __wt_row_search stores before anything else (lines 29-37);
\* page and row pointers are page levels and slot indexes, NULL is -1.
ResetSession ==
    [srch_page |-> -1, srch_write_gen |-> 0, srch_match |-> 0,
     srch_ip |-> -1, srch_vupdate |-> NullUpd, srch_ins |-> NullRef,
     srch_upd |-> NullRef, srch_slot |-> UINT32_MAX, srch_exp |-> -1]

\* What an earlier search may have left behind in the session.
StaleSession ==
    [srch_page |-> 1, srch_write_gen |-> 2, srch_match |-> 1,
     srch_ip |-> 0, srch_vupdate |-> SlotUpd(0, TRUE),
     srch_ins |-> Ref("head", 0, 0), srch_upd |-> Ref("slot", 0, 0),
     srch_slot |-> 0, srch_exp |-> -1]

VARIABLES
    pc,         \* position of the session inside __wt_row_search
    key,        \* the searched key
    write,      \* LF_ISSET(WT_WRITE)
    session,    \* the SESSION's srch_* fields
    page,       \* local: the page being searched
    lo, hi,     \* key range lo..hi-1 of the subtree rooted at page
    base, limit, indx, cmp, rref, rip, write_gen, ret,   \* locals
    pins,       \* levels of the non-root pages this session has pinned
    deref,      \* level of the page the last statement dereferenced (-1: none)
    cmpidx,     \* internal-page index last handed to the comparator (-1: none)
    failed,     \* __wt_page_in or __wt_key_build returned an error
    path,       \* which branch followed the leaf slot search
    acquired,   \* per level: hazard references __wt_page_in has taken
    released,   \* per level: hazard references the search has cleared
    scan,       \* insert-array entry whose chain went to __wt_ins_search (-1: none)
    kbon,       \* where the last statement called __wt_key_build ("none": nowhere)
    twin,       \* a second session running the same search in step
    nwrites,    \* WSpec: updates entered by other sessions so far
    dirty,      \* WSpec: the leaf changed after the search first read its contents
    kslot,      \* KBSpec: the contended WT_ROW slot
    tpc, tcell, ttmp, tseen, tfreed,     \* KBSpec: per-session state
    workq,      \* KBSpec: sessions waiting for the workQ thread
    wreq, wpc,  \* KBSpec: session served by the workQ thread (0: none), step
    korig,      \* KBSpec: the slot as it was read from disk
    kwgen       \* KBSpec: write_gen of the page that holds the slot

svars == <<pc, key, write, session, page, lo, hi, base, limit, indx,
           cmp, rref, rip, write_gen, ret, pins, deref, cmpidx, failed, path,
           acquired, released, scan, kbon, twin, nwrites, dirty>>
kvars == <<kslot, tpc, tcell, ttmp, tseen, tfreed, workq, wreq, wpc, korig, kwgen>>
vars == <<svars, kvars>>

\* ------------------------------------------------------- key instantiation
\* __wt_key_build_serial_func, lines 358-370, as one step: the key is
\* swapped in only if it still needs processing.
KeyBuildSerialFunc(s, tmp) ==
    IF KeyProcess(s) THEN [key |-> tmp.data, size |-> tmp.size] ELSE s

\* __wt_key_build run by session t with no other session on the page and a
\* successful __wt_cell_process.
KeyBuild(s, t) ==
    IF RefOffPage(s.key) THEN s
    ELSE KeyBuildSerialFunc(s, CellProcess(s.key, t))

\* ------------------------------------------------------------ binary search
\* SearchStep with the comparison of the 0th index of an internal page left
\* in.
SearchStepCompares0(b, l, c, target, i, skey, skip0) ==
    LET n == Compare(target, skey)
    IN  IF n = 0
        THEN [base |-> b, limit |-> l, cmp |-> 0, brk |-> TRUE,
              cmped |-> TRUE]
        ELSE IF n < 0
        THEN [base |-> b, limit |-> l \div 2, cmp |-> n, brk |-> FALSE,
              cmped |-> TRUE]
        ELSE [base |-> i + 1, limit |-> (l - 1) \div 2, cmp |-> n,
              brk |-> FALSE, cmped |-> TRUE]

\* One iteration of the binary-search loops (lines 49-84 and 133-152) once
\* the key at indx is resident: skip0 is the internal-page rule that the
\* 0th index is not compared.
SearchStep(b, l, c, target, i, skey, skip0) ==
    IF skip0 /\ i = 0
    THEN [base |-> i + 1, limit |-> (l - 1) \div 2, cmp |-> c, brk |-> FALSE,
          cmped |-> FALSE]
    ELSE LET n == Compare(target, skey)
         IN  IF n = 0
             THEN [base |-> b, limit |-> l, cmp |-> 0, brk |-> TRUE,
                   cmped |-> TRUE]
             ELSE IF n < 0
             THEN [base |-> b, limit |-> l \div 2, cmp |-> n, brk |-> FALSE,
                   cmped |-> TRUE]
             ELSE [base |-> i + 1, limit |-> (l - 1) \div 2, cmp |-> n,
                   brk |-> FALSE, cmped |-> TRUE]

\* Lines 94-95: the slot used for the next step down the tree.
DescentSlot(c, r, b) == IF c # 0 THEN b - 1 ELSE r

\* Key range of the subtree below entry i of an internal page.
ChildLo(p, i, l) == IF i = 0 THEN l ELSE p.t[i].key.k
ChildHi(p, i, h) == IF i + 1 < Count(p.t) THEN p.t[i + 1].key.k ELSE h

\* WT_PAGE_OUT: release the hazard reference unless the page is the root.
PageOut(ps, p) == IF p.level # 0 THEN ps \ {p.level} ELSE ps

\* --------------------------------------------------------- __wt_ins_search
\* InsSearch that does not move srch_ins forward while walking the chain.
RECURSIVE InsSearchStaleLink(_, _, _, _, _)
InsSearchStaleLink(chain, c, p, target, s) ==
    IF p >= Count(chain) THEN [ret |-> 1, s |-> s]
    ELSE LET n == Compare(target, chain[p].key)
         IN  IF n = 0
             THEN [ret |-> 0,
                   s |-> [s EXCEPT !.srch_ins = NullRef,
                                   !.srch_vupdate = chain[p].upd,
                                   !.srch_upd = Ref("node", c, p)]]
             ELSE IF n < 0 THEN [ret |-> 1, s |-> s]
             ELSE InsSearchStaleLink(chain, c, p + 1, target, s)

\* InsSearch that leaves srch_ins as it is when it finds the key.
RECURSIVE InsSearchKeepsIns(_, _, _, _, _)
InsSearchKeepsIns(chain, c, p, target, s) ==
    IF p >= Count(chain) THEN [ret |-> 1, s |-> s]
    ELSE LET n == Compare(target, chain[p].key)
         IN  IF n = 0
             THEN [ret |-> 0,
                   s |-> [s EXCEPT !.srch_vupdate = chain[p].upd,
                                   !.srch_upd = Ref("node", c, p)]]
             ELSE IF n < 0 THEN [ret |-> 1, s |-> s]
             ELSE InsSearchKeepsIns(chain, c, p + 1, target,
                                    [s EXCEPT !.srch_ins = Ref("next", c, p)])

\* Lines 268-282, from node p of the chain of slot c: s is the session so
\* far; the result is the return value and the session.
RECURSIVE InsSearch(_, _, _, _, _)
InsSearch(chain, c, p, target, s) ==
    IF p >= Count(chain) THEN [ret |-> 1, s |-> s]
    ELSE LET n == Compare(target, chain[p].key)
         IN  IF n = 0
             THEN [ret |-> 0,
                   s |-> [s EXCEPT !.srch_ins = NullRef,
                                   !.srch_vupdate = chain[p].upd,
                                   !.srch_upd = Ref("node", c, p)]]
             ELSE IF n < 0 THEN [ret |-> 1, s |-> s]
             ELSE InsSearch(chain, c, p + 1, target,
                            [s EXCEPT !.srch_ins = Ref("next", c, p)])

\* *ref for a WT_UPDATE ** into page p.
DerefUpd(p, ref) ==
    IF ref.kind = "slot" THEN p.upd[ref.slot]
    ELSE p.ins[ref.slot][ref.pos].upd

\* WT_ROW_INSERT_SMALLEST / WT_ROW_INSERT: the chain of entry c of the insert
\* array, empty (NULL) when the array is not allocated.
RowInsert(p, c) == IF p.has_ins THEN p.ins[c] ELSE <<>>

\* WT_ROW_INDX_SLOT(page, rip) with rip == NULL computes NULL - page->d: any
\* value.
WildSlots == 0..(MaxSlots + 1)

\* ------------------------------------------------- __wt_row_search, by step
NoPage == [type |-> "none", level |-> -1]

\* WT_CLEAR(tmp): no buffer.
NoBuf == [data |-> Cell(0), size |-> 0]

\* The write generation of a page nobody has changed since it was read.
KGen0 == 1

\* The slot race is not running (Spec).
KIdle ==
    /\ kslot = PendingSlot(1) /\ korig = PendingSlot(1)
    /\ kwgen = KGen0
    /\ tpc = [t \in Threads |-> "off"]
    /\ tcell = [t \in Threads |-> Cell(0)]
    /\ ttmp = [t \in Threads |-> NoBuf]
    /\ tseen = [t \in Threads |-> PendingSlot(1)]
    /\ tfreed = [t \in Threads |-> 0]
    /\ workq = <<>> /\ wreq = 0 /\ wpc = "idle"

\* The levels of the non-root pages.
Levels == 1..MaxDepth

\* One more hazard reference counted at level l.
Bump(f, l) == [f EXCEPT ![l] = @ + 1]

\* The second session: its srch_* fields and its return value.
Twin(s) == [s |-> s, ret |-> 0]

\* No other session is changing the leaf (Spec).
NoWriters == nwrites = 0 /\ dirty = FALSE

Init ==
    /\ pc = "idle"
    /\ key = 0 /\ write = FALSE
    /\ session \in {ResetSession, StaleSession}
    /\ page = NoPage
    /\ lo = 1 /\ hi = MaxKey + 1
    /\ base = 0 /\ limit = 0 /\ indx = 0 /\ cmp = 0
    /\ rref = -1 /\ rip = -1 /\ write_gen = 0 /\ ret = 0
    /\ pins = {} /\ deref = -1 /\ cmpidx = -1
    /\ failed = FALSE /\ path = "none"
    /\ acquired = [l \in Levels |-> 0]
    /\ released = [l \in Levels |-> 0]
    /\ scan = -1 /\ kbon = "none"
    /\ twin \in {Twin(ResetSession), Twin(StaleSession)}
    /\ NoWriters
    /\ KIdle

\* Lines 29-41 and the loop initialisation of line 47, for a tree whose root
\* page is one of roots.
EnterAt(roots) ==
    /\ pc = "idle"
    /\ \E k \in Keys, w \in BOOLEAN, root \in roots :
          /\ key' = k
          /\ write' = w
          /\ page' = root
    /\ session' = ResetSession
    /\ twin' = [twin EXCEPT !.s = ResetSession]
    /\ cmp' = 0
    /\ rip' = -1
    /\ pc' = "top"
    /\ UNCHANGED <<lo, hi, base, limit, indx, rref, write_gen, ret,
                   pins, deref, cmpidx, failed, path, acquired, released,
                   scan, kbon, nwrites, dirty>>

Enter == EnterAt(PagesAt(1, MaxKey + 1, 0))

\* Line 47 (page->type == WT_PAGE_ROW_INT) and what follows it before
\* anything else of the page is read: on an internal page the initialisation
\* and first test of the binary search, lines 49-50; on a leaf the copy of
\* the write generation, line 108.
Top ==
    /\ pc = "top"
    /\ deref' = page.level
    /\ IF page.type = "int"
       THEN /\ base' = 0
            /\ limit' = IndxCount(page)
            /\ pc' = IF IndxCount(page) # 0 THEN "int_loop" ELSE "int_done"
            /\ UNCHANGED write_gen
       ELSE /\ write_gen' = page.write_gen
            /\ pc' = "leaf_init"
            /\ UNCHANGED <<base, limit>>
    /\ UNCHANGED <<key, write, session, page, lo, hi, indx, cmp, rref,
                   rip, ret, pins, cmpidx, failed, path,
                   acquired, released, scan, kbon, twin, nwrites, dirty>>

\* Line 133: the initialisation and first test of the leaf binary search.
LeafInit ==
    /\ pc = "leaf_init"
    /\ base' = 0
    /\ limit' = IndxCount(page)
    /\ deref' = page.level
    /\ pc' = IF IndxCount(page) # 0 THEN "leaf_loop" ELSE "leaf_done"
    /\ UNCHANGED <<key, write, session, page, lo, hi, indx, cmp,
                   rref, rip, write_gen, ret, pins, cmpidx, failed, path,
                   acquired, released, scan, kbon, twin, nwrites, dirty>>

\* Instantiate that leaves a key that needs processing as it is.
InstantiateNever(s, t) == s

\* Lines 58-60 and 141-142 when __wt_key_build succeeds: the key is
\* instantiated if it needs processing.
Instantiate(s, t) == IF KeyProcess(s) THEN KeyBuild(s, t) ELSE s

\* One iteration of the internal-page binary search, lines 49-84, up to the
\* loop test that follows it (limit != 0).
IntProbe ==
    /\ pc = "int_loop"
    /\ deref' = page.level
    /\ LET i == base + (limit \div 2)
       IN  /\ indx' = i
           /\ rref' = i
           /\ kbon' = IF ~KeyProcess(page.t[i]) THEN "none"
                      ELSE IF i = 0 THEN "int0" ELSE "int"
           /\ \/ /\ KeyProcess(page.t[i])
                 /\ failed' = TRUE
                 /\ ret' = WT_ERROR
                 /\ twin' = [twin EXCEPT !.ret = WT_ERROR]
                 /\ pc' = "err"
                 /\ UNCHANGED <<page, base, limit, cmp, cmpidx>>
              \/ LET built == Instantiate(page.t[i], 0)
                     r == SearchStep(base, limit, cmp, key, i,
                                     built.key.k, TRUE)
                 IN  /\ page' = [page EXCEPT !.t[i] = built]
                     /\ base' = r.base
                     /\ limit' = r.limit
                     /\ cmp' = r.cmp
                     /\ cmpidx' = IF r.cmped THEN i ELSE cmpidx
                     /\ pc' = IF r.brk \/ r.limit = 0 THEN "int_done"
                              ELSE "int_loop"
                     /\ UNCHANGED <<ret, failed, twin>>
    /\ UNCHANGED <<key, write, session, lo, hi, rip, write_gen, pins,
                   path, acquired, released, scan, nwrites, dirty>>

\* Lines 94-95.
IntDone ==
    /\ pc = "int_done"
    /\ rref' = DescentSlot(cmp, rref, base)
    /\ kbon' = "none"
    /\ pc' = "pagein"
    /\ UNCHANGED <<key, write, session, page, lo, hi, base, limit,
                   indx, cmp, rip, write_gen, ret, pins, deref, cmpidx,
                   failed, path, acquired, released, scan, twin, nwrites,
                   dirty>>

\* Line 98: __wt_page_in reads rref->ref of the parent and, unless it fails,
\* leaves the child (the page one level down) in memory with a hazard
\* reference.
PageIn ==
    /\ pc = "pagein"
    /\ deref' = page.level
    /\ \/ /\ failed' = TRUE
          /\ ret' = WT_ERROR
          /\ twin' = [twin EXCEPT !.ret = WT_ERROR]
          /\ pc' = "err"
          /\ UNCHANGED <<pins, acquired>>
       \/ /\ pins' = pins \cup {page.level + 1}
          /\ acquired' = Bump(acquired, page.level + 1)
          /\ pc' = "clear"
          /\ UNCHANGED <<ret, failed, twin>>
    /\ UNCHANGED <<key, write, session, page, lo, hi, base, limit, indx, cmp,
                   rref, rip, write_gen, cmpidx, path, released, scan, kbon,
                   nwrites, dirty>>

\* HazardClear that leaves the hazard reference of the parent in place.
HazardClearKeepsParent ==
    /\ pc = "clear"
    /\ deref' = -1
    /\ pc' = "swap"
    /\ UNCHANGED <<key, write, session, page, lo, hi, base, limit,
                   indx, cmp, rref, rip, write_gen, ret, pins, cmpidx, failed,
                   path, acquired, released, scan, kbon, twin, nwrites,
                   dirty>>

\* Lines 99-100.
HazardClear ==
    /\ pc = "clear"
    /\ pins' = IF page.level # 0 THEN pins \ {page.level} ELSE pins
    /\ released' = IF page.level # 0 THEN Bump(released, page.level)
                   ELSE released
    /\ deref' = -1
    /\ pc' = "swap"
    /\ UNCHANGED <<key, write, session, page, lo, hi, base, limit,
                   indx, cmp, rref, rip, write_gen, ret, cmpidx, failed, path,
                   acquired, scan, kbon, twin, nwrites, dirty>>

\* Line 101: page = WT_ROW_REF_PAGE(rref) reads rref->ref.page, a field of
\* the parent's entry array.  The child's content, not looked at before this
\* point, is any well-formed page for the key range of the entry.
Swap ==
    /\ pc = "swap"
    /\ deref' = page.level
    /\ page' \in PagesAt(ChildLo(page, rref, lo), ChildHi(page, rref, hi),
                         page.level + 1)
    /\ lo' = ChildLo(page, rref, lo)
    /\ hi' = ChildHi(page, rref, hi)
    /\ pc' = "top"
    /\ UNCHANGED <<key, write, session, base, limit, indx, cmp, rref, rip,
                   write_gen, ret, pins, cmpidx, failed, path, acquired,
                   released, scan, kbon, twin, nwrites, dirty>>

\* One iteration of the leaf binary search, lines 133-152, up to the loop
\* test that follows it (limit != 0).
LeafProbe ==
    /\ pc = "leaf_loop"
    /\ deref' = page.level
    /\ LET i == base + (limit \div 2)
       IN  /\ indx' = i
           /\ rip' = i
           /\ kbon' = IF KeyProcess(page.d[i]) THEN "leaf" ELSE "none"
           /\ \/ /\ KeyProcess(page.d[i])
                 /\ failed' = TRUE
                 /\ ret' = WT_ERROR
                 /\ twin' = [twin EXCEPT !.ret = WT_ERROR]
                 /\ pc' = "err"
                 /\ UNCHANGED <<page, base, limit, cmp>>
              \/ LET built == Instantiate(page.d[i], 0)
                     r == SearchStep(base, limit, cmp, key, i,
                                     built.key.k, FALSE)
                 IN  /\ page' = [page EXCEPT !.d[i] = built]
                     /\ base' = r.base
                     /\ limit' = r.limit
                     /\ cmp' = r.cmp
                     /\ pc' = IF r.brk \/ r.limit = 0 THEN "leaf_done"
                              ELSE "leaf_loop"
                     /\ UNCHANGED <<ret, failed, twin>>
    /\ UNCHANGED <<key, write, session, lo, hi, rref, write_gen, pins,
                   cmpidx, path, acquired, released, scan, nwrites, dirty>>

\* Lines 159-163: the return information of an on-disk match.
DiskMatch(p, s, slot) ==
    IF p.has_upd
    THEN [s EXCEPT !.srch_slot = slot,
                   !.srch_upd = Ref("slot", slot, 0),
                   !.srch_vupdate = p.upd[slot]]
    ELSE [s EXCEPT !.srch_slot = slot]

\* LeafMatch going on to search the insert chain of the matched slot.
LeafMatchScansChain ==
    /\ pc = "leaf_done"
    /\ cmp = 0
    /\ \E slot \in (IF rip = -1 THEN {0} ELSE {rip}) :
          /\ session' = DiskMatch(page, session, slot)
          /\ twin' = [twin EXCEPT !.s = DiskMatch(page, twin.s, slot)]
          /\ scan' = IF Count(RowInsert(page, slot)) # 0 THEN slot ELSE -1
    /\ deref' = page.level
    /\ path' = "match"
    /\ kbon' = "none"
    /\ pc' = "done"
    /\ UNCHANGED <<key, write, page, lo, hi, base, limit, indx, cmp,
                   rref, rip, write_gen, ret, pins, cmpidx, failed,
                   acquired, released, nwrites, dirty>>

\* Lines 158-165: cmp == 0 after the leaf loop.
LeafMatch ==
    /\ pc = "leaf_done"
    /\ cmp = 0
    /\ \E slot \in (IF rip = -1 THEN WildSlots ELSE {rip}) :
          session' = DiskMatch(page, session, slot)
    /\ \E slot \in (IF rip = -1 THEN WildSlots ELSE {rip}) :
          twin' = [twin EXCEPT !.s = DiskMatch(page, twin.s, slot)]
    /\ deref' = page.level
    /\ path' = "match"
    /\ kbon' = "none"
    /\ pc' = "done"
    /\ UNCHANGED <<key, write, page, lo, hi, base, limit, indx, cmp,
                   rref, rip, write_gen, ret, pins, cmpidx, failed,
                   acquired, released, scan, nwrites, dirty>>

\* Lines 190-198: the slot reported after a leaf miss and the initial
\* srch_ins.
ChainSetup(p, s, b) ==
    LET slot == IF b = 0 THEN IndxCount(p) ELSE b - 1
        s1 == [s EXCEPT !.srch_slot = slot]
    IN  IF p.has_ins THEN [s1 EXCEPT !.srch_ins = Ref("head", slot, 0)]
        ELSE s1

\* Lines 176-226: cmp != 0 after the leaf loop.
LeafMiss ==
    /\ pc = "leaf_done"
    /\ cmp # 0
    /\ LET r == IF base # 0 THEN base - 1 ELSE 0
           s2 == ChainSetup(page, session, base)
           t2 == ChainSetup(page, twin.s, base)
           slot == s2.srch_slot
           ins == RowInsert(page, slot)
           found == InsSearch(ins, slot, 0, key, s2)
           tfound == InsSearch(ins, slot, 0, key, t2)
       IN  /\ rip' = r
           /\ IF Count(ins) = 0
              THEN /\ session' = s2
                   /\ cmp' = cmp
                   /\ scan' = -1
                   /\ pc' = IF ~write THEN "notfound" ELSE "done"
                   /\ twin' = [s |-> t2,
                               ret |-> IF ~write THEN WT_NOTFOUND
                                       ELSE twin.ret]
              ELSE /\ session' = found.s
                   /\ cmp' = found.ret
                   /\ scan' = slot
                   /\ pc' = IF found.ret # 0 /\ ~write THEN "notfound"
                            ELSE "done"
                   /\ twin' = [s |-> tfound.s,
                               ret |-> IF tfound.ret # 0 /\ ~write
                                       THEN WT_NOTFOUND ELSE twin.ret]
    /\ deref' = page.level
    /\ path' = "miss"
    /\ kbon' = "none"
    /\ UNCHANGED <<key, write, page, lo, hi, base, limit, indx, rref,
                   write_gen, ret, pins, cmpidx, failed, acquired, released,
                   nwrites, dirty>>

\* Tombstone with the WT_UPDATE_DELETED_ISSET test inverted.
TombstoneInverted(w, p, s) ==
    /\ ~w
    /\ s.srch_upd # NullRef
    /\ ~UpdIsNull(DerefUpd(p, s.srch_upd))
    /\ ~UpdDeleted(DerefUpd(p, s.srch_upd))

\* Tombstone without the LF_ISSET(WT_WRITE) test.
TombstoneIgnoresWrite(w, p, s) ==
    /\ s.srch_upd # NullRef
    /\ ~UpdIsNull(DerefUpd(p, s.srch_upd))
    /\ UpdDeleted(DerefUpd(p, s.srch_upd))

\* Lines 232-236: a search that is not an insert does not see a deleted
\* object.
Tombstone(w, p, s) ==
    /\ ~w
    /\ s.srch_upd # NullRef
    /\ ~UpdIsNull(DerefUpd(p, s.srch_upd))
    /\ UpdDeleted(DerefUpd(p, s.srch_upd))

\* Success reporting the write generation the leaf has when the search
\* returns.
SuccessRereadsGen(s, p, wg, c, r) ==
    [s EXCEPT !.srch_page = p.level,
              !.srch_write_gen = p.write_gen,
              !.srch_match = IF c = 0 THEN 1 ELSE 0,
              !.srch_ip = r]

\* Lines 238-241: the return information of a successful search.
Success(s, p, wg, c, r) ==
    [s EXCEPT !.srch_page = p.level,
              !.srch_write_gen = wg,
              !.srch_match = IF c = 0 THEN 1 ELSE 0,
              !.srch_ip = r]

\* Lines 228-242.
Done ==
    /\ pc = "done"
    /\ deref' = page.level
    /\ IF Tombstone(write, page, session)
       THEN /\ pc' = "notfound"
            /\ UNCHANGED <<session, ret>>
       ELSE /\ session' = Success(session, page, write_gen, cmp, rip)
            /\ ret' = 0
            /\ pc' = "ret"
    /\ twin' = IF Tombstone(write, page, twin.s)
               THEN [twin EXCEPT !.ret = WT_NOTFOUND]
               ELSE [s |-> Success(twin.s, page, write_gen, cmp, rip),
                     ret |-> 0]
    /\ UNCHANGED <<key, write, page, lo, hi, base, limit, indx, cmp,
                   rref, rip, write_gen, pins, cmpidx, failed, path,
                   acquired, released, scan, kbon, nwrites, dirty>>

\* NotFound returning without falling through to the release at err.
NotFoundKeepsPin ==
    /\ pc = "notfound"
    /\ ret' = WT_NOTFOUND
    /\ pc' = "ret"
    /\ UNCHANGED <<key, write, session, page, lo, hi, base, limit,
                   indx, cmp, rref, rip, write_gen, pins, deref, cmpidx,
                   failed, path, acquired, released, scan, kbon, twin,
                   nwrites, dirty>>

\* Lines 244-245.
NotFound ==
    /\ pc = "notfound"
    /\ ret' = WT_NOTFOUND
    /\ pc' = "err"
    /\ UNCHANGED <<key, write, session, page, lo, hi, base, limit,
                   indx, cmp, rref, rip, write_gen, pins, deref, cmpidx,
                   failed, path, acquired, released, scan, kbon, twin,
                   nwrites, dirty>>

\* Err without WT_PAGE_OUT.
ErrKeepsPin ==
    /\ pc = "err"
    /\ deref' = -1
    /\ pc' = "ret"
    /\ UNCHANGED <<key, write, session, page, lo, hi, base, limit,
                   indx, cmp, rref, rip, write_gen, ret, pins, cmpidx, failed,
                   path, acquired, released, scan, kbon, twin, nwrites,
                   dirty>>

\* Lines 247-248.
Err ==
    /\ pc = "err"
    /\ pins' = PageOut(pins, page)
    /\ released' = IF page.level # 0 THEN Bump(released, page.level)
                   ELSE released
    /\ deref' = -1
    /\ pc' = "ret"
    /\ UNCHANGED <<key, write, session, page, lo, hi, base, limit,
                   indx, cmp, rref, rip, write_gen, ret, cmpidx, failed, path,
                   acquired, scan, kbon, twin, nwrites, dirty>>

Next ==
    /\ \/ Enter \/ Top \/ LeafInit \/ IntProbe \/ IntDone
       \/ PageIn \/ HazardClear \/ Swap \/ LeafProbe \/ LeafMatch
       \/ LeafMiss \/ Done \/ NotFound \/ Err
    /\ UNCHANGED kvars

Spec == Init /\ [][Next]_vars

\* ------------------------------------------- writers on the searched leaf
\* Other sessions enter updates for the searched key while the search is on
\* the leaf and after it has returned the leaf: the new WT_UPDATE is put in
\* front of the key's update list (the list of its on-disk slot or of its
\* insert-chain node) and the page's write generation is incremented.  The
\* workQ thread makes these changes one at a time.
LeafPinned ==
    /\ page.type = "leaf"
    /\ \/ pc \in {"top", "leaf_init", "leaf_loop", "leaf_done", "done"}
       \/ pc = "ret" /\ ret = 0

\* The update put in front of update u of the entry identified by id.
Prepend(u, id, del) ==
    [at |-> (IF UpdIsNull(u) THEN id ELSE u.at) + 200, del |-> del]

\* The search has read a slot count, slot, key, update or chain of the leaf.
LeafRead == pc \notin {"top", "leaf_init"}

WriterSlot ==
    /\ LeafPinned
    /\ nwrites < MaxWrites
    /\ page.has_upd
    /\ \E i \in DOMAIN page.d, del \in BOOLEAN :
          /\ page.d[i].key.k = key
          /\ page' = [page EXCEPT !.upd[i] = Prepend(@, i, del),
                                  !.write_gen = @ + 1]
    /\ nwrites' = nwrites + 1
    /\ dirty' = (dirty \/ LeafRead)
    /\ UNCHANGED <<pc, key, write, session, lo, hi, base, limit, indx, cmp,
                   rref, rip, write_gen, ret, pins, deref, cmpidx, failed,
                   path, acquired, released, scan, kbon, twin>>

WriterNode ==
    /\ LeafPinned
    /\ nwrites < MaxWrites
    /\ page.has_ins
    /\ \E c \in DOMAIN page.ins, del \in BOOLEAN :
          \E n \in DOMAIN page.ins[c] :
             /\ page.ins[c][n].key = key
             /\ page' = [page EXCEPT
                            !.ins[c][n].upd = Prepend(@, 100 + key, del),
                            !.write_gen = @ + 1]
    /\ nwrites' = nwrites + 1
    /\ dirty' = (dirty \/ LeafRead)
    /\ UNCHANGED <<pc, key, write, session, lo, hi, base, limit, indx, cmp,
                   rref, rip, write_gen, ret, pins, deref, cmpidx, failed,
                   path, acquired, released, scan, kbon, twin>>

\* The search of a tree whose root page is a leaf: the descent reads nothing
\* of the leaf it reaches.
WEnter == EnterAt(LeafPages(1, MaxKey + 1, 0))

WNext ==
    /\ \/ WEnter \/ Top \/ LeafInit \/ LeafProbe \/ LeafMatch \/ LeafMiss
       \/ Done \/ NotFound \/ Err \/ WriterSlot \/ WriterNode
    /\ UNCHANGED kvars

WSpec == Init /\ [][WNext]_vars

\* ------------------------------------------------- the race on one key slot
\* Every session of Threads is at line 141 of the leaf binary search with
\* rip on the same WT_ROW, whose key is still to be instantiated.
KBInit ==
    /\ pc = "off"
    /\ key = 0 /\ write = FALSE
    /\ session = ResetSession
    /\ page = NoPage
    /\ lo = 1 /\ hi = MaxKey + 1
    /\ base = 0 /\ limit = 0 /\ indx = 0 /\ cmp = 0
    /\ rref = -1 /\ rip = -1 /\ write_gen = 0 /\ ret = 0
    /\ pins = {} /\ deref = -1 /\ cmpidx = -1
    /\ failed = FALSE /\ path = "none"
    /\ acquired = [l \in Levels |-> 0]
    /\ released = [l \in Levels |-> 0]
    /\ scan = -1 /\ kbon = "none"
    /\ twin = Twin(ResetSession)
    /\ NoWriters
    /\ \E k \in Keys : kslot = PendingSlot(k) /\ korig = PendingSlot(k)
    /\ kwgen = KGen0
    /\ tpc = [t \in Threads |-> "probe"]
    /\ tcell = [t \in Threads |-> Cell(0)]
    /\ ttmp = [t \in Threads |-> NoBuf]
    /\ tseen = [t \in Threads |-> PendingSlot(1)]
    /\ tfreed = [t \in Threads |-> 0]
    /\ workq = <<>> /\ wreq = 0 /\ wpc = "idle"

\* KProbe calling __wt_key_build whatever the size of the key.
KProbeAlwaysBuilds(t) ==
    /\ tpc[t] = "probe"
    /\ tpc' = [tpc EXCEPT ![t] = "kb_cell"]
    /\ UNCHANGED <<kslot, tcell, ttmp, tseen, tfreed, workq, wreq, wpc, korig, kwgen>>

\* Line 141: if (__wt_key_process(rip)).
KProbe(t) ==
    /\ tpc[t] = "probe"
    /\ tpc' = [tpc EXCEPT ![t] = IF KeyProcess(kslot) THEN "kb_cell"
                                 ELSE "compare"]
    /\ UNCHANGED <<kslot, tcell, ttmp, tseen, tfreed, workq, wreq, wpc, korig, kwgen>>

\* __wt_key_build, lines 303-304 and 321-322: copy the key pointer; if it is
\* off-page another session raced, return 0.
KReadCell(t) ==
    /\ tpc[t] = "kb_cell"
    /\ tcell' = [tcell EXCEPT ![t] = kslot.key]
    /\ tpc' = [tpc EXCEPT ![t] = IF RefOffPage(kslot.key) THEN "compare"
                                 ELSE "kb_decode"]
    /\ UNCHANGED <<kslot, ttmp, tseen, tfreed, workq, wreq, wpc, korig, kwgen>>

\* __wt_key_build, line 325: WT_RET(__wt_cell_process(session, cell, &tmp)).
KDecode(t) ==
    /\ tpc[t] = "kb_decode"
    /\ \/ /\ tpc' = [tpc EXCEPT ![t] = "failed"]
          /\ UNCHANGED ttmp
       \/ /\ ttmp' = [ttmp EXCEPT ![t] = CellProcess(tcell[t], t)]
          /\ tpc' = [tpc EXCEPT ![t] = "kb_serial"]
    /\ UNCHANGED <<kslot, tcell, tseen, tfreed, workq, wreq, wpc, korig, kwgen>>

\* __wt_key_build, line 328: hand the swap to the workQ thread and wait.
KSerial(t) ==
    /\ tpc[t] = "kb_serial"
    /\ workq' = Append(workq, t)
    /\ tpc' = [tpc EXCEPT ![t] = "kb_wait"]
    /\ UNCHANGED <<kslot, tcell, ttmp, tseen, tfreed, wreq, wpc, korig, kwgen>>

\* WqTest swapping the key in without the __wt_key_process test.
WqTestAlwaysSwaps ==
    /\ wreq = 0
    /\ workq # <<>>
    /\ wreq' = Head(workq)
    /\ workq' = Tail(workq)
    /\ wpc' = "store_key"
    /\ UNCHANGED <<kslot, tpc, tcell, ttmp, tseen, tfreed, korig, kwgen>>

\* __wt_key_build_serial_func, lines 348-359, run by the workQ thread for
\* the next waiting session: does the key still need processing?
WqTest ==
    /\ wreq = 0
    /\ workq # <<>>
    /\ wreq' = Head(workq)
    /\ workq' = Tail(workq)
    /\ wpc' = IF KeyProcess(kslot) THEN "store_key" ELSE "wrapup"
    /\ UNCHANGED <<kslot, tpc, tcell, ttmp, tseen, tfreed, korig, kwgen>>

\* Lines 367-368: key->key = tmp->item.data; WT_MEMORY_FLUSH.
WqStoreKey ==
    /\ wpc = "store_key"
    /\ kslot' = [kslot EXCEPT !.key = ttmp[wreq].data]
    /\ wpc' = "store_size"
    /\ UNCHANGED <<tpc, tcell, ttmp, tseen, tfreed, workq, wreq, korig, kwgen>>

\* WqStoreSize incrementing the page's write generation with the publish.
WqStoreSizeBumpsGen ==
    /\ wpc = "store_size"
    /\ kslot' = [kslot EXCEPT !.size = ttmp[wreq].size]
    /\ kwgen' = kwgen + 1
    /\ wpc' = "wrapup"
    /\ UNCHANGED <<tpc, tcell, ttmp, tseen, tfreed, workq, wreq, korig>>

\* Line 369: key->size = tmp->item.size.
WqStoreSize ==
    /\ wpc = "store_size"
    /\ kslot' = [kslot EXCEPT !.size = ttmp[wreq].size]
    /\ wpc' = "wrapup"
    /\ UNCHANGED <<tpc, tcell, ttmp, tseen, tfreed, workq, wreq, korig, kwgen>>

\* Lines 372-373: __wt_session_serialize_wrapup wakes the waiting session.
WqWrapup ==
    /\ wpc = "wrapup"
    /\ tpc' = [tpc EXCEPT ![wreq] = "kb_free"]
    /\ wreq' = 0
    /\ wpc' = "idle"
    /\ UNCHANGED <<kslot, tcell, ttmp, tseen, tfreed, workq, korig, kwgen>>

\* __wt_key_build, lines 331-334: free the buffer the workQ did not use.
KFree(t) ==
    /\ tpc[t] = "kb_free"
    /\ tfreed' = [tfreed EXCEPT ![t] = IF kslot.key # ttmp[t].data
                                       THEN tfreed[t] + 1 ELSE tfreed[t]]
    /\ tpc' = [tpc EXCEPT ![t] = "compare"]
    /\ UNCHANGED <<kslot, tcell, ttmp, tseen, workq, wreq, wpc, korig, kwgen>>

\* Line 144: btree_compare(btree, key, (WT_ITEM *)rip) reads the slot's
\* data pointer and size.
KCompare(t) ==
    /\ tpc[t] = "compare"
    /\ tseen' = [tseen EXCEPT ![t] = kslot]
    /\ tpc' = [tpc EXCEPT ![t] = "fin"]
    /\ UNCHANGED <<kslot, tcell, ttmp, tfreed, workq, wreq, wpc, korig, kwgen>>

KBNext ==
    /\ \/ \E t \in Threads :
             \/ KProbe(t) \/ KReadCell(t) \/ KDecode(t) \/ KSerial(t)
             \/ KFree(t) \/ KCompare(t)
       \/ WqTest \/ WqStoreKey \/ WqStoreSize \/ WqWrapup
    /\ UNCHANGED svars

KBSpec == KBInit /\ [][KBNext]_vars

\* ===================================================== properties of Spec
Returned == pc = "ret"

\* Linear-scan reference for a leaf: the slots holding the target and the
\* smallest index whose key is greater (the slot count if there is none).
LinearHits(p, target) == {i \in DOMAIN p.d : p.d[i].key.k = target}
LinearBase(p, target) ==
    LET greater == {i \in DOMAIN p.d : p.d[i].key.k > target}
    IN  IF greater = {} THEN Count(p.d)
        ELSE CHOOSE i \in greater : \A j \in greater : i <= j

\* The insert chain the search selects after a leaf miss.
SelectedSlot == IF base = 0 THEN IndxCount(page) ELSE base - 1
SelectedChain == RowInsert(page, SelectedSlot)
ChainHits == {p \in DOMAIN SelectedChain : SelectedChain[p].key = key}

\* The update carried by the position the search matched: the on-disk slot
\* with the target's key after an on-disk match, the chain node with the
\* target's key after an on-disk miss.
MatchedUpds ==
    IF path = "match"
    THEN {page.upd[i] : i \in {j \in LinearHits(page, key) : page.has_upd}}
    ELSE IF path = "miss"
    THEN {SelectedChain[p].upd : p \in ChainHits}
    ELSE {}

\* C1: when the matched position (on-disk slot or insert-chain node) carries
\* a deleted update, a search without WT_WRITE returns WT_NOTFOUND and a
\* search with WT_WRITE returns 0 with srch_match = 1 and srch_vupdate and
\* *srch_upd being that deleted update.
C1_TombstoneVisibility ==
    Returned =>
        \A u \in MatchedUpds :
            UpdDeleted(u) =>
                IF write
                THEN /\ ret = 0
                     /\ session.srch_match = 1
                     /\ session.srch_vupdate = u
                     /\ session.srch_upd # NullRef
                     /\ DerefUpd(page, session.srch_upd) = u
                ELSE ret = WT_NOTFOUND

C1_Witness ==
    /\ Returned /\ write /\ ret = 0
    /\ path = "miss"
    /\ \E u \in MatchedUpds : UpdDeleted(u)

\* C2: after the leaf binary search, an on-disk match is reported exactly
\* when a linear scan finds a slot with an equal key, with the same slot
\* index; on a miss base is the smallest index whose key is greater than the
\* target (the slot count if there is none).  Any slot count from zero up.
C2_BinarySearchIsLinearScan ==
    pc = "leaf_done" =>
        /\ (cmp = 0) <=> (LinearHits(page, key) # {})
        /\ cmp = 0 => rip \in LinearHits(page, key)
        /\ cmp # 0 => base = LinearBase(page, key)

\* C5 (as stated): whenever the search returns 0 or WT_NOTFOUND the leaf it
\* reached is still pinned (the root is pinned by its owner throughout).
C5_LeafPinnedOnReturn ==
    (Returned /\ ret \in {0, WT_NOTFOUND}) =>
        (page.level = 0 \/ page.level \in pins)

\* C5 (amended): on a return of 0 the leaf is still pinned and is the page
\* handed back in srch_page; on a return of WT_NOTFOUND the search has
\* itself released the leaf's hazard reference, holds no pin and hands back
\* no page.
C5_LeafPinnedOnSuccessOnly ==
    /\ (Returned /\ ret = 0) =>
          /\ page.level = 0 \/ page.level \in pins
          /\ session.srch_page = page.level
          /\ pins \subseteq {page.level}
    /\ (Returned /\ ret = WT_NOTFOUND) =>
          /\ pins = {}
          /\ session.srch_page = -1

C5_Witness ==
    /\ Returned /\ ret = WT_NOTFOUND
    /\ page.type = "leaf" /\ page.level = 2

\* C6: after a search with WT_WRITE that misses, linking a node with the
\* searched key at the returned insertion point (*srch_ins, or the head of
\* the chain of srch_slot when no link was returned) leaves the chain
\* strictly sorted, and the key lies strictly between the key of the
\* bracketing on-disk slot and the key of the next on-disk slot (below the
\* key of slot 0 for the smallest chain).
InsertPos(s) == IF s.srch_ins.kind = "next" THEN s.srch_ins.pos + 1 ELSE 0

Spliced(chain, pos, k) ==
    [i \in 0..Count(chain) |->
        IF i < pos THEN chain[i].key
        ELSE IF i = pos THEN k ELSE chain[i - 1].key]

StrictlySorted(f) == \A i, j \in DOMAIN f : i < j => f[i] < f[j]

C6_InsertionPoint ==
    (Returned /\ ret = 0 /\ write /\ session.srch_match = 0) =>
        LET slot == session.srch_slot
            n == IndxCount(page)
            chain == RowInsert(page, slot)
        IN  /\ slot \in 0..n
            /\ session.srch_ins # NullRef => session.srch_ins.slot = slot
            /\ session.srch_ins = NullRef => ~page.has_ins
            /\ InsertPos(session) \in 0..Count(chain)
            /\ StrictlySorted(Spliced(chain, InsertPos(session), key))
            /\ slot = n => (n = 0 \/ key < page.d[0].key.k)
            /\ slot < n =>
                  /\ page.d[slot].key.k < key
                  /\ slot + 1 < n => key < page.d[slot + 1].key.k

C6_Witness ==
    /\ Returned /\ ret = 0 /\ write /\ session.srch_match = 0
    /\ session.srch_ins.kind = "next"
    /\ session.srch_slot < IndxCount(page)

\* C7: on an internal page the descent takes the largest index i such that
\* i = 0 or key[i] <= target; index 0 is never handed to the comparator; a
\* target below every key of the page takes child slot 0; at every level.
LargestLE(p, target) ==
    LET le == {0} \cup {i \in DOMAIN p.t : i >= 1 /\ p.t[i].key.k <= target}
    IN  CHOOSE i \in le : \A j \in le : j <= i

C7_DescentSlot ==
    /\ cmpidx # 0
    /\ pc = "pagein" =>
          /\ rref = LargestLE(page, key)
          /\ (\A i \in DOMAIN page.t : key < page.t[i].key.k) => rref = 0
          /\ cmp # 0 => rref = base - 1

C7_Witness ==
    /\ pc = "pagein" /\ page.level = 1
    /\ Count(page.t) >= 2
    /\ \A i \in DOMAIN page.t : key < page.t[i].key.k
    /\ rref = 0

\* C8: if paging in a child or materializing a key fails, the search returns
\* that error, holds no non-root pin when it returns, and every result field
\* still has its reset value.
C8_ErrorReturn ==
    (Returned /\ failed) =>
        /\ ret = WT_ERROR
        /\ pins = {}
        /\ session = ResetSession

C8_Witness ==
    /\ Returned /\ failed /\ ret = WT_ERROR
    /\ page.level = 1

\* C9 (as stated): after a leaf miss, a node of the selected chain with the
\* target's key makes the result a match with that node's update, for either
\* value of the write flag; otherwise WT_NOTFOUND without WT_WRITE and 0 with
\* srch_match = 0 with WT_WRITE.
C9_ChainMatchEitherFlag ==
    (Returned /\ path = "miss") =>
        /\ \A p \in ChainHits :
              /\ ret = 0
              /\ session.srch_match = 1
              /\ session.srch_vupdate = SelectedChain[p].upd
        /\ ChainHits = {} =>
              IF write THEN ret = 0 /\ session.srch_match = 0
              ELSE ret = WT_NOTFOUND

\* C9 (amended): as above, except that without WT_WRITE a matching node
\* whose update is deleted gives WT_NOTFOUND.
C9_ChainMatchUnlessTombstone ==
    (Returned /\ path = "miss") =>
        /\ \A p \in ChainHits :
              IF ~write /\ UpdDeleted(SelectedChain[p].upd)
              THEN ret = WT_NOTFOUND
              ELSE /\ ret = 0
                   /\ session.srch_match = 1
                   /\ session.srch_vupdate = SelectedChain[p].upd
        /\ ChainHits = {} =>
              IF write THEN ret = 0 /\ session.srch_match = 0
              ELSE ret = WT_NOTFOUND

C9_Witness ==
    /\ Returned /\ path = "miss" /\ ~write
    /\ \E p \in ChainHits : ~UpdDeleted(SelectedChain[p].upd)
    /\ ret = 0

\* C10: the child is pinned before the pin on its parent is released, and
\* every page the search dereferences is the root or pinned by the search.
C10_ReadsOnlyPinnedPages ==
    /\ pc = "swap" => (page.level + 1) \in pins
    /\ deref \in ({-1, 0} \cup pins)

\* =================================================== properties of KBSpec
\* C3: every key comparison reads a fully resident key, the decoded buffer
\* together with its non-zero size; never the new pointer with size zero.
C3_CompareSeesResidentKey ==
    \A t \in Threads :
        tpc[t] = "fin" => (RefOffPage(tseen[t].key) /\ tseen[t].size # 0)

\* C4: when all sessions that called __wt_key_build on the pending slot have
\* returned, the slot holds the key bytes and size a single materialization
\* produces, the slot's pointer is the buffer of exactly one session, which
\* has not freed it, and every other session that built a buffer has freed
\* it exactly once.
KAllReturned ==
    /\ \A t \in Threads : tpc[t] \in {"fin", "failed"}
    /\ workq = <<>> /\ wreq = 0

Builders == {t \in Threads : ttmp[t] # NoBuf}

C4_OneWinnerOthersFreed ==
    KAllReturned =>
        IF Builders = {}
        THEN /\ kslot = korig
             /\ \A t \in Threads : tfreed[t] = 0
        ELSE /\ kslot.key.k = KeyBuild(korig, 0).key.k
             /\ kslot.size = KeyBuild(korig, 0).size
             /\ RefOffPage(kslot.key)
             /\ kslot.key.owner \in Builders
             /\ Cardinality({t \in Builders : ttmp[t].data = kslot.key}) = 1
             /\ \A t \in Threads :
                   tfreed[t] = IF t \in Builders /\ t # kslot.key.owner
                               THEN 1 ELSE 0

C4_Witness ==
    /\ KAllReturned
    /\ Builders = Threads
    /\ \E t \in Threads : tfreed[t] = 1

\* ============================================ further properties of Spec
\* C11: every hazard reference the search takes on a non-root page other
\* than the page it hands back is cleared exactly once before the search
\* returns, whether it returns 0, WT_NOTFOUND or an error; the page handed
\* back keeps its one reference; the search never holds more than two.
HandedBack(l) == Returned /\ ret = 0 /\ session.srch_page = l

HasChain(p, c) == p.has_ins /\ c \in DOMAIN p.ins /\ Count(p.ins[c]) # 0

\* C13 (as stated): a search with WT_WRITE runs the insert chain search on
\* the chain of the slot it reports, on every search, an exact on-disk match
\* included (a chain without nodes needs no search).
C13_ChainSearchedOnEveryWrite ==
    (Returned /\ ~failed /\ write) =>
        (HasChain(page, session.srch_slot) => scan = session.srch_slot)

\* C13 (amended): __wt_ins_search runs exactly when the leaf slot search
\* reports a miss and the selected chain has nodes, with or without
\* WT_WRITE; after an exact on-disk match no chain is searched and srch_ins
\* stays NULL.
C13_ChainSearchedOnMissOnly ==
    (Returned /\ ~failed) =>
        /\ path = "match" => (scan = -1 /\ session.srch_ins = NullRef)
        /\ path = "miss" =>
              scan = IF Count(SelectedChain) # 0 THEN SelectedSlot ELSE -1

C13_Witness ==
    /\ Returned /\ ret = 0 /\ write
    /\ path = "match" /\ rip # -1
    /\ HasChain(page, session.srch_slot)
    /\ scan = -1 /\ session.srch_ins = NullRef

\* C14: after a leaf miss the chain searched and the slot reported follow
\* base: the smallest chain and the slot count when base = 0, the chain of
\* slot base - 1 and base - 1 otherwise; on every return of 0 srch_slot is
\* in 0..slot count, and it is the slot count only when the target is
\* smaller than every on-disk key of the leaf.
C14_SlotFollowsBase ==
    /\ (Returned /\ ~failed /\ path = "miss") =>
          /\ session.srch_slot = SelectedSlot
          /\ scan \in {-1, SelectedSlot}
          /\ (base = 0) <=> (session.srch_slot = IndxCount(page))
    /\ (Returned /\ ret = 0) =>
          /\ session.srch_slot \in 0..IndxCount(page)
          /\ session.srch_slot = IndxCount(page) =>
                \A i \in DOMAIN page.d : key < page.d[i].key.k

\* C17 (as stated): the descent through internal pages never calls
\* __wt_key_build; it is called for leaf slots only, so a decode failure
\* aborts a search only during the leaf slot search.
C17_DescentNeverBuildsKeys == kbon \in {"none", "leaf"}

\* C17 (amended): the descent calls __wt_key_build for every internal-page
\* entry it probes whose key needs processing, index 0 included, so every
\* probed entry and the entry taken for the descent have resident keys; a
\* failure of that call ends the search with the error, as a failure during
\* the leaf slot search does, the key still pending.
C17_DescentBuildsPendingKeys ==
    /\ kbon \in {"int0", "int"} =>
          (page.type = "int" /\ ((kbon = "int0") <=> (indx = 0)))
    /\ kbon = "leaf" => page.type = "leaf"
    /\ pc \in {"int_done", "pagein"} => ~KeyProcess(page.t[indx])
    /\ pc = "pagein" => ~KeyProcess(page.t[rref])
    /\ (pc = "leaf_done" /\ IndxCount(page) # 0) => ~KeyProcess(page.d[indx])
    /\ (failed /\ kbon # "none") =>
          /\ ret = WT_ERROR
          /\ KeyProcess(IF page.type = "int" THEN page.t[indx]
                        ELSE page.d[indx])

C17_Witness ==
    /\ Returned /\ failed /\ ret = WT_ERROR
    /\ page.type = "int" /\ kbon = "int0" /\ indx = 0

C20_RefsAgreeWithMatch ==
    (Returned /\ ret = 0) =>
        /\ session.srch_upd # NullRef => session.srch_match = 1
        /\ session.srch_ins # NullRef => session.srch_match = 0
        /\ session.srch_upd = NullRef \/ session.srch_ins = NullRef

C20_Witness ==
    /\ Returned /\ ret = 0
    /\ path = "miss" /\ page.has_ins
    /\ session.srch_match = 1
    /\ session.srch_upd.kind = "node" /\ session.srch_upd.pos > 0
    /\ session.srch_ins = NullRef

\* ========================================== further properties of KBSpec
\* C12: once the slot has a non-zero size no step of __wt_key_build or
\* __wt_key_build_serial_func changes its pointer or size, so the key moves
\* from pending to resident at most once; a session that finds the size
\* non-zero at line 141 goes straight to the comparison: it copies no cell,
\* decodes and allocates nothing, and hands nothing to the workQ.
Queued(q, t) == \E i \in DOMAIN q : q[i] = t

C12_ResidentOnce ==
    [][ /\ kslot.size # 0 => kslot' = kslot
        /\ \A t \in Threads :
              (tpc[t] = "probe" /\ tpc'[t] # "probe" /\ kslot.size # 0) =>
                 /\ tpc'[t] = "compare"
                 /\ tcell'[t] = Cell(0) /\ ttmp'[t] = NoBuf
                 /\ ~Queued(workq', t)
        /\ \A t \in Threads :
              tpc[t] \in {"compare", "fin"} =>
                 /\ tpc'[t] \in {"compare", "fin"}
                 /\ tcell'[t] = tcell[t] /\ ttmp'[t] = ttmp[t]
                 /\ tfreed'[t] = tfreed[t]
                 /\ ~Queued(workq', t) /\ wreq' # t
      ]_vars

C12_Witness ==
    \E t \in Threads :
        /\ tpc[t] = "fin"
        /\ tcell[t] = Cell(0) /\ ttmp[t] = NoBuf
        /\ kslot.size # 0 /\ tseen[t] = kslot
        /\ \E u \in Threads : kslot.key = Buf(korig.key.k, u)

\* C15 (as stated): the publish of a materialized key increments the page's
\* write generation: once the pending slot is resident write_gen is greater
\* than it was before the publish.
C15_PublishBumpsWriteGen == kslot.size # 0 => kwgen > KGen0

\* C15 (amended): no step of __wt_key_build or __wt_key_build_serial_func
\* changes the page's write generation: after the pending slot has become
\* resident write_gen is what it was before the publish.
C15_PublishKeepsWriteGen ==
    /\ kwgen = KGen0
    /\ KAllReturned /\ Builders # {} => kslot.size # 0

C15_Witness ==
    /\ KAllReturned
    /\ kslot.size # 0 /\ RefOffPage(kslot.key)
    /\ kwgen = KGen0

\* ===================================================== properties of WSpec
\* C16: srch_write_gen is the write generation copied at line 108, after the
\* descent has reached the leaf and before the search reads the leaf's slot
\* count, slots, keys, updates or insert chains; with other sessions changing
\* the leaf, each change incrementing write_gen, a leaf whose write_gen
\* equals the returned snapshot has not changed since the search first read
\* its contents.
C16_SnapshotDetectsChange ==
    /\ (pc = "leaf_init" /\ nwrites = 0) => write_gen = page.write_gen
    /\ (Returned /\ ret = 0) =>
          /\ session.srch_write_gen = write_gen
          /\ page.write_gen = session.srch_write_gen => ~dirty
          /\ dirty => page.write_gen > session.srch_write_gen

C16_Witness ==
    /\ Returned /\ ret = 0
    /\ nwrites > 0 /\ ~dirty
    /\ page.write_gen = session.srch_write_gen

\* C19: with other sessions putting updates in front of the matched key's
\* update list, a search without WT_WRITE that returns 0 hands back in
\* srch_vupdate either NULL or an update that is not marked deleted.
C19_NoDeletedValueReadOnly ==
    (Returned /\ ret = 0 /\ ~write) =>
        (UpdIsNull(session.srch_vupdate) \/ ~UpdDeleted(session.srch_vupdate))

====
